---- MODULE Spec2Model ----
(***************************************************************************)
(* Model of portfolio-builder's backend.py: generate_portfolio,            *)
(* _strip_markdown_fences, deploy_to_github, _unique_repo_name and         *)
(* _push_file.  Strings are sequences of one-character strings.  A         *)
(* repository name is <<prefix>> or <<prefix, "-", n>>, the shape the      *)
(* f-string f"{prefix}-{i}" builds.  A remote call either succeeds ("ok")  *)
(* or raises GithubException with an HTTP status.                          *)
(***************************************************************************)
EXTENDS Integers, Sequences, FiniteSets, TLC

VARIABLES
    \* deploy_to_github / generate_portfolio, one invocation per caller
    pc, op, github_token, html_code, api_key, username, repo_name, existing,
    log, result,
    \* the hosting account's repository namespace and what was done to it
    repos, created, written, pages,
    \* _strip_markdown_fences applied to a response text, then to its result
    text, stripped, restripped, sstage,
    \* _unique_repo_name applied to a set of existing names
    existing_names, clock, candidate, nstage

vars == <<pc, op, github_token, html_code, api_key, username, repo_name,
          existing, log, result, repos, created, written, pages,
          text, stripped, restripped, sstage,
          existing_names, clock, candidate, nstage>>

deployVars == <<pc, op, github_token, html_code, api_key, username, repo_name,
                existing, log, result, repos, created, written, pages>>
stripVars == <<text, stripped, restripped, sstage>>
nameVars == <<existing_names, clock, candidate, nstage>>

(***************************************************************************)
(* Bounds                                                                  *)
(***************************************************************************)
\* longest response text, counted in pieces of TextPieces
MaxPieces == 6
\* concurrent callers of generate_portfolio / deploy_to_github
NumProcs == 2
\* latest reading of the clock (int(time.time())); the earliest is ProbeLimit
MaxTime == 101

(***************************************************************************)
(* Constants of backend.py                                                 *)
(***************************************************************************)
REPO_NAME_PREFIX == "portfolio-builder"
\* range(2, 100): the loop index runs over 2 .. ProbeLimit - 1
ProbeLimit == 100

(***************************************************************************)
(* Strings                                                                 *)
(***************************************************************************)
Whitespace == {" ", "\n"}
Letters == {"h"}
\* the backquote character (written "^": a TLA+ string cannot hold a backquote)
Backtick == "^"
Fence == <<Backtick, Backtick, Backtick>>

\* str.strip()
RECURSIVE LStrip(_)
LStrip(s) ==
    IF s = <<>> THEN s
    ELSE IF Head(s) \in Whitespace THEN LStrip(Tail(s)) ELSE s

RECURSIVE RStrip(_)
RStrip(s) ==
    IF s = <<>> THEN s
    ELSE IF s[Len(s)] \in Whitespace THEN RStrip(SubSeq(s, 1, Len(s) - 1)) ELSE s

StrStrip(s) == RStrip(LStrip(s))

\* a plausible slip: only the empty string counts as blank
IsBlankEmptyOnly(s) == s = <<>>

\* "not s or not s.strip()"
IsBlank(s) == s = <<>> \/ StrStrip(s) = <<>>

(***************************************************************************)
(* _strip_markdown_fences: the regular expression matched by re.match     *)
(***************************************************************************)
FenceAt(s, i) ==
    /\ i >= 1
    /\ i + 2 <= Len(s)
    /\ SubSeq(s, i, i + 2) = Fence

\* the language tag is greedy; what follows must be "\n", which is no letter, so
\* only the longest run of letters can lead to a match
RECURSIVE SkipLetters(_, _)
SkipLetters(s, i) ==
    IF i <= Len(s) /\ s[i] \in Letters THEN SkipLetters(s, i + 1) ELSE i

\* the trailing whitespace run: only whitespace from position i to the end
OnlySpaceFrom(s, i) == \A j \in i..Len(s) : s[j] \in Whitespace

Min(S) == CHOOSE x \in S : \A y \in S : x <= y

\* the match object: matched, and group(1).  The group is lazy: it
\* ends at the first closing fence that is followed only by whitespace.
FenceMatch(s) ==
    IF ~FenceAt(s, 1) THEN [matched |-> FALSE, group |-> <<>>]
    ELSE LET n == SkipLetters(s, 4)
         IN IF ~(n <= Len(s) /\ s[n] = "\n")
            THEN [matched |-> FALSE, group |-> <<>>]
            ELSE LET closes == {k \in (n + 1)..Len(s) :
                                   FenceAt(s, k) /\ OnlySpaceFrom(s, k + 3)}
                 IN IF closes = {}
                    THEN [matched |-> FALSE, group |-> <<>>]
                    ELSE [matched |-> TRUE,
                          group |-> SubSeq(s, n + 1, Min(closes) - 1)]

\* a plausible slip: the unmatched text comes back trimmed
StripMarkdownFencesTrimmed(t) ==
    LET m == FenceMatch(StrStrip(t))
    IN IF m.matched THEN m.group ELSE StrStrip(t)

StripMarkdownFences(t) ==
    LET m == FenceMatch(StrStrip(t))
    IN IF m.matched THEN m.group ELSE t

(***************************************************************************)
(* _unique_repo_name                                                       *)
(***************************************************************************)
BareName(prefix) == <<prefix>>
\* f"{prefix}-{i}"
SuffixedName(prefix, i) == <<prefix, "-", i>>

\* the for loop from index i on, with the current candidate
RECURSIVE ProbeFrom(_, _, _, _, _)
ProbeFrom(names, prefix, cand, i, now) ==
    IF i >= ProbeLimit THEN SuffixedName(prefix, now)
    ELSE IF cand \notin names THEN cand
    ELSE ProbeFrom(names, prefix, SuffixedName(prefix, i), i + 1, now)

UniqueRepoName(names, prefix, now) ==
    ProbeFrom(names, prefix, BareName(prefix), 2, now)

\* int(time.time()): any reading of the clock from ProbeLimit seconds on
TimeValues == ProbeLimit..MaxTime

(***************************************************************************)
(* Callers and inputs                                                      *)
(***************************************************************************)
Procs == 1..NumProcs
NoName == <<>>

NoResult == [kind |-> "none", at |-> "", cause |-> "", value |-> <<>>]

\* no invocation has started and the account is empty
Quiet ==
    /\ pc = [p \in Procs |-> "idle"]
    /\ op = [p \in Procs |-> "none"]
    /\ github_token = [p \in Procs |-> <<>>]
    /\ html_code = [p \in Procs |-> <<>>]
    /\ api_key = [p \in Procs |-> <<>>]
    /\ username = [p \in Procs |-> ""]
    /\ repo_name = [p \in Procs |-> NoName]
    /\ existing = [p \in Procs |-> ""]
    /\ log = [p \in Procs |-> <<>>]
    /\ result = [p \in Procs |-> NoResult]
    /\ created = {}
    /\ written = {}
    /\ pages = {}

NoText ==
    /\ text = <<>>
    /\ stripped = <<>>
    /\ restripped = <<>>
    /\ sstage = "unused"

NoNames ==
    /\ existing_names = {}
    /\ clock = ProbeLimit
    /\ candidate = NoName
    /\ nstage = "unused"

(***************************************************************************)
(* _strip_markdown_fences on every text of up to MaxPieces pieces          *)
(***************************************************************************)
TextPieces == {Fence, <<Backtick>>, <<"h">>, <<"\n">>, <<" ">>}

RECURSIVE TextsOf(_)
TextsOf(n) ==
    IF n = 0 THEN {<<>>}
    ELSE LET T == TextsOf(n - 1)
         IN T \cup {t \o q : t \in T, q \in TextPieces}

Texts == TextsOf(MaxPieces)

InitStrip ==
    /\ text \in Texts
    /\ stripped = <<>>
    /\ restripped = <<>>
    /\ sstage = "input"
    /\ Quiet /\ repos = {}
    /\ NoNames

\* html = _strip_markdown_fences(raw_text)
StripOnce ==
    /\ sstage = "input"
    /\ stripped' = StripMarkdownFences(text)
    /\ sstage' = "once"
    /\ UNCHANGED <<text, restripped, deployVars, nameVars>>

\* the function applied to its own result
StripTwice ==
    /\ sstage = "once"
    /\ restripped' = StripMarkdownFences(stripped)
    /\ sstage' = "twice"
    /\ UNCHANGED <<text, stripped, deployVars, nameVars>>

NextStrip == StripOnce \/ StripTwice

SpecStrip == InitStrip /\ [][NextStrip]_vars

(***************************************************************************)
(* _unique_repo_name on sets of existing names                             *)
(***************************************************************************)
\* the prefix and prefix-2 .. prefix-k
TakenUpTo(k) ==
    IF k = 0 THEN {}
    ELSE {BareName(REPO_NAME_PREFIX)}
             \cup {SuffixedName(REPO_NAME_PREFIX, n) : n \in 2..k}

\* h = 0: nothing; h = 1: the prefix; otherwise prefix-h
NameNo(h) ==
    IF h = 0 THEN {}
    ELSE IF h = 1 THEN {BareName(REPO_NAME_PREFIX)}
    ELSE {SuffixedName(REPO_NAME_PREFIX, h)}

\* a run of taken names with at most one free name inside it, and possibly
\* one repository named prefix-<a clock reading>
NameSets ==
    {(TakenUpTo(k) \ NameNo(h)) \cup e :
        k \in 0..ProbeLimit, h \in 0..ProbeLimit,
        e \in {{}} \cup {{SuffixedName(REPO_NAME_PREFIX, t)} : t \in TimeValues}}

InitName ==
    /\ existing_names \in NameSets
    /\ clock \in TimeValues
    /\ candidate = NoName
    /\ nstage = "input"
    /\ Quiet /\ repos = {}
    /\ NoText

\* repo_name = _unique_repo_name(auth_user, REPO_NAME_PREFIX)
ResolveName ==
    /\ nstage = "input"
    /\ candidate' = UniqueRepoName(existing_names, REPO_NAME_PREFIX, clock)
    /\ nstage' = "resolved"
    /\ UNCHANGED <<existing_names, clock, deployVars, stripVars>>

NextName == ResolveName

SpecName == InitName /\ [][NextName]_vars

(***************************************************************************)
(* deploy_to_github and generate_portfolio                                 *)
(***************************************************************************)
\* statuses a GithubException carries; "ok" is a call that returns
Statuses == {"401", "404", "422"}
Outcomes == {"ok"} \cup Statuses

\* github_token, html_code and api_key as the caller may pass them
Tokens == {<<>>, <<"\n", " ">>, <<" ", "t", "\n">>}
Markups == {<<>>, <<" ", "\n">>, <<"h">>}
ApiKeys == {<<>>, <<" ", "\n">>, <<"k", " ">>}
\* response.text of the generation call
Responses == {<<>>, <<"h">>, Fence \o <<"h", "\n", "h">> \o Fence,
              Fence \o <<"\n", " ">> \o Fence \o <<"\n">>}
\* auth_user.login
Login == "octocat"
\* existing.sha
Sha == "sha-1"

InitialRepos ==
    {{}, TakenUpTo(2),
     TakenUpTo(ProbeLimit - 2) \cup {SuffixedName(REPO_NAME_PREFIX, MaxTime)}}

Raised(kind, step, status) ==
    [kind |-> kind, at |-> step, cause |-> status, value |-> <<>>]
Returned(kind, step, v) ==
    [kind |-> kind, at |-> step, cause |-> "", value |-> v]

Called(p, name, outcome, sha) ==
    [log EXCEPT ![p] = Append(@, [call |-> name, outcome |-> outcome, sha |-> sha])]

\* the three f-strings f"https://{username}.github.io/{repo_name}/"
HomepageUrl(user, name) == <<"https://", user, ".github.io/", name, "/">>
WarnedPagesUrl(user, name) == <<"https://", user, ".github.io/", name, "/">>
PagesUrl(user, name) == <<"https://", user, ".github.io/", name, "/">>

\* a plausible slip: the 401 branch is missing
AuthFailureGeneric(status) == "RuntimeError"

\* except GithubException around get_user(): 401 is a PermissionError
AuthFailure(status) ==
    IF status = "401" THEN "PermissionError" ELSE "RuntimeError"

\* except GithubException in _push_file: 404 creates the file, else re-raise
PushExcept(status) ==
    IF status = "404" THEN "create_file" ELSE "raise"

\* the guards on github_token and html_code
DeployCall(p) ==
    /\ pc[p] = "idle"
    /\ \E tok \in Tokens, html \in Markups :
         /\ github_token' = [github_token EXCEPT ![p] = tok]
         /\ html_code' = [html_code EXCEPT ![p] = html]
         /\ IF IsBlank(tok) \/ IsBlank(html)
            THEN /\ result' = [result EXCEPT ![p] = Raised("ValueError", "guard", "")]
                 /\ pc' = [pc EXCEPT ![p] = "done"]
            ELSE /\ pc' = [pc EXCEPT ![p] = "auth"]
                 /\ UNCHANGED result
    /\ op' = [op EXCEPT ![p] = "deploy"]
    /\ UNCHANGED <<api_key, username, repo_name, existing, log,
                   repos, created, written, pages, stripVars, nameVars>>

\* gh.get_user().login
GetUser(p) ==
    /\ pc[p] = "auth"
    /\ \E o \in Outcomes :
         /\ log' = Called(p, "get_user", o, "")
         /\ IF o = "ok"
            THEN /\ username' = [username EXCEPT ![p] = Login]
                 /\ pc' = [pc EXCEPT ![p] = "list"]
                 /\ UNCHANGED result
            ELSE /\ result' = [result EXCEPT ![p] = Raised(AuthFailure(o), "auth", o)]
                 /\ pc' = [pc EXCEPT ![p] = "done"]
                 /\ UNCHANGED username
    /\ UNCHANGED <<op, github_token, html_code, api_key, repo_name, existing,
                   repos, created, written, pages, stripVars, nameVars>>

\* _unique_repo_name: auth_user.get_repos() and the probe; no try around it
ListRepos(p) ==
    /\ pc[p] = "list"
    /\ \E o \in Outcomes :
         /\ log' = Called(p, "get_repos", o, "")
         /\ IF o = "ok"
            THEN /\ \E now \in TimeValues :
                      repo_name' = [repo_name EXCEPT ![p] =
                          UniqueRepoName(repos, REPO_NAME_PREFIX, now)]
                 /\ pc' = [pc EXCEPT ![p] = "create"]
                 /\ UNCHANGED result
            ELSE /\ result' = [result EXCEPT ![p] = Raised("GithubException", "list", o)]
                 /\ pc' = [pc EXCEPT ![p] = "done"]
                 /\ UNCHANGED repo_name
    /\ UNCHANGED <<op, github_token, html_code, api_key, username, existing,
                   repos, created, written, pages, stripVars, nameVars>>

\* a plausible slip: a 422 "already exists" is taken as a repository to reuse
CreateRepoReuses(p) ==
    /\ pc[p] = "create"
    /\ \E o \in Outcomes :
         /\ o = "ok" => repo_name[p] \notin repos
         /\ log' = Called(p, "create_repo", o, "")
         /\ IF o = "ok"
            THEN /\ repos' = repos \cup {repo_name[p]}
                 /\ created' = created \cup
                        {[by |-> p, name |-> repo_name[p],
                          homepage |-> HomepageUrl(username[p], repo_name[p])]}
                 /\ pc' = [pc EXCEPT ![p] = "sleep"]
                 /\ UNCHANGED result
            ELSE IF o = "422"
            THEN /\ pc' = [pc EXCEPT ![p] = "sleep"]
                 /\ UNCHANGED <<result, repos, created>>
            ELSE /\ result' = [result EXCEPT ![p] = Raised("RuntimeError", "create", o)]
                 /\ pc' = [pc EXCEPT ![p] = "done"]
                 /\ UNCHANGED <<repos, created>>
    /\ UNCHANGED <<op, github_token, html_code, api_key, username, repo_name,
                   existing, written, pages, stripVars, nameVars>>

\* auth_user.create_repo(...): the account refuses a name it already holds
CreateRepo(p) ==
    /\ pc[p] = "create"
    /\ \E o \in Outcomes :
         /\ o = "ok" => repo_name[p] \notin repos
         /\ log' = Called(p, "create_repo", o, "")
         /\ IF o = "ok"
            THEN /\ repos' = repos \cup {repo_name[p]}
                 /\ created' = created \cup
                        {[by |-> p, name |-> repo_name[p],
                          homepage |-> HomepageUrl(username[p], repo_name[p])]}
                 /\ pc' = [pc EXCEPT ![p] = "sleep"]
                 /\ UNCHANGED result
            ELSE /\ result' = [result EXCEPT ![p] = Raised("RuntimeError", "create", o)]
                 /\ pc' = [pc EXCEPT ![p] = "done"]
                 /\ UNCHANGED <<repos, created>>
    /\ UNCHANGED <<op, github_token, html_code, api_key, username, repo_name,
                   existing, written, pages, stripVars, nameVars>>

\* time.sleep(2)
Sleep(p) ==
    /\ pc[p] = "sleep"
    /\ log' = Called(p, "sleep", "ok", "")
    /\ pc' = [pc EXCEPT ![p] = "fetch"]
    /\ UNCHANGED <<op, github_token, html_code, api_key, username, repo_name,
                   existing, result, repos, created, written, pages,
                   stripVars, nameVars>>

\* _push_file: existing = repo.get_contents(file_path, ref=branch)
GetContents(p) ==
    /\ pc[p] = "fetch"
    /\ \E o \in Outcomes :
         /\ log' = Called(p, "get_contents", o, "")
         /\ IF o = "ok"
            THEN /\ existing' = [existing EXCEPT ![p] = Sha]
                 /\ pc' = [pc EXCEPT ![p] = "update"]
                 /\ UNCHANGED result
            ELSE IF PushExcept(o) = "create_file"
            THEN /\ pc' = [pc EXCEPT ![p] = "createfile"]
                 /\ UNCHANGED <<existing, result>>
            ELSE /\ result' = [result EXCEPT ![p] = Raised("RuntimeError", "push", o)]
                 /\ pc' = [pc EXCEPT ![p] = "done"]
                 /\ UNCHANGED existing
    /\ UNCHANGED <<op, github_token, html_code, api_key, username, repo_name,
                   repos, created, written, pages, stripVars, nameVars>>

\* _push_file: repo.update_file(..., sha=existing.sha), inside the same try
UpdateFile(p) ==
    /\ pc[p] = "update"
    /\ \E o \in Outcomes :
         /\ log' = Called(p, "update_file", o, existing[p])
         /\ IF o = "ok"
            THEN /\ written' = written \cup
                        {[by |-> p, repo |-> repo_name[p], how |-> "update_file"]}
                 /\ pc' = [pc EXCEPT ![p] = "pages"]
                 /\ UNCHANGED result
            ELSE IF PushExcept(o) = "create_file"
            THEN /\ pc' = [pc EXCEPT ![p] = "createfile"]
                 /\ UNCHANGED <<written, result>>
            ELSE /\ result' = [result EXCEPT ![p] = Raised("RuntimeError", "push", o)]
                 /\ pc' = [pc EXCEPT ![p] = "done"]
                 /\ UNCHANGED written
    /\ UNCHANGED <<op, github_token, html_code, api_key, username, repo_name,
                   existing, repos, created, pages, stripVars, nameVars>>

\* _push_file: repo.create_file(...) in the except branch
CreateFile(p) ==
    /\ pc[p] = "createfile"
    /\ \E o \in Outcomes :
         /\ log' = Called(p, "create_file", o, "")
         /\ IF o = "ok"
            THEN /\ written' = written \cup
                        {[by |-> p, repo |-> repo_name[p], how |-> "create_file"]}
                 /\ pc' = [pc EXCEPT ![p] = "pages"]
                 /\ UNCHANGED result
            ELSE /\ result' = [result EXCEPT ![p] = Raised("RuntimeError", "push", o)]
                 /\ pc' = [pc EXCEPT ![p] = "done"]
                 /\ UNCHANGED written
    /\ UNCHANGED <<op, github_token, html_code, api_key, username, repo_name,
                   existing, repos, created, pages, stripVars, nameVars>>

\* a plausible slip: the pages-enable failure is re-raised like the others
EnablePagesRaises(p) ==
    /\ pc[p] = "pages"
    /\ \E o \in Outcomes :
         /\ log' = Called(p, "enable_pages", o, "")
         /\ IF o = "ok"
            THEN /\ pages' = pages \cup {repo_name[p]}
                 /\ result' = [result EXCEPT ![p] =
                        Returned("url", "pages", PagesUrl(username[p], repo_name[p]))]
            ELSE /\ result' = [result EXCEPT ![p] = Raised("RuntimeError", "pages", o)]
                 /\ UNCHANGED pages
    /\ pc' = [pc EXCEPT ![p] = "done"]
    /\ UNCHANGED <<op, github_token, html_code, api_key, username, repo_name,
                   existing, repos, created, written, stripVars, nameVars>>

\* repo.enable_pages(...): a failure is printed as a warning and swallowed
EnablePages(p) ==
    /\ pc[p] = "pages"
    /\ \E o \in Outcomes :
         /\ log' = Called(p, "enable_pages", o, "")
         /\ IF o = "ok"
            THEN /\ pages' = pages \cup {repo_name[p]}
                 /\ result' = [result EXCEPT ![p] =
                        Returned("url", "pages", PagesUrl(username[p], repo_name[p]))]
            ELSE /\ result' = [result EXCEPT ![p] =
                        Returned("url", "warned", WarnedPagesUrl(username[p], repo_name[p]))]
                 /\ UNCHANGED pages
    /\ pc' = [pc EXCEPT ![p] = "done"]
    /\ UNCHANGED <<op, github_token, html_code, api_key, username, repo_name,
                   existing, repos, created, written, stripVars, nameVars>>

\* generate_portfolio: the guard on api_key, then genai.configure(...)
GenerateCall(p) ==
    /\ pc[p] = "idle"
    /\ \E key \in ApiKeys :
         /\ api_key' = [api_key EXCEPT ![p] = key]
         /\ IF IsBlank(key)
            THEN /\ result' = [result EXCEPT ![p] = Raised("ValueError", "guard", "")]
                 /\ pc' = [pc EXCEPT ![p] = "done"]
                 /\ UNCHANGED log
            ELSE /\ log' = Called(p, "configure", "ok", "")
                 /\ pc' = [pc EXCEPT ![p] = "generate"]
                 /\ UNCHANGED result
    /\ op' = [op EXCEPT ![p] = "generate"]
    /\ UNCHANGED <<github_token, html_code, username, repo_name, existing,
                   repos, created, written, pages, stripVars, nameVars>>

\* generate_portfolio: generate_content, response.text, fence stripping
GenerateContent(p) ==
    /\ pc[p] = "generate"
    /\ \E o \in {"ok", "no_text", "500"} :
         /\ log' = Called(p, "generate_content", o, "")
         /\ IF o = "500"
            THEN result' = [result EXCEPT ![p] = Raised("RuntimeError", "generate", o)]
            ELSE IF o = "no_text"
            THEN result' = [result EXCEPT ![p] = Raised("ValueError", "text", "")]
            ELSE \E raw_text \in Responses :
                    LET html == StripMarkdownFences(raw_text)
                    IN IF StrStrip(html) = <<>>
                       THEN result' = [result EXCEPT ![p] = Raised("ValueError", "empty", "")]
                       ELSE result' = [result EXCEPT ![p] = Returned("html", "generate", html)]
    /\ pc' = [pc EXCEPT ![p] = "done"]
    /\ UNCHANGED <<op, github_token, html_code, api_key, username, repo_name,
                   existing, repos, created, written, pages, stripVars, nameVars>>

Init ==
    /\ Quiet
    /\ repos \in InitialRepos
    /\ NoText
    /\ NoNames

Next ==
    \E p \in Procs :
        \/ DeployCall(p)
        \/ GetUser(p)
        \/ ListRepos(p)
        \/ CreateRepo(p)
        \/ Sleep(p)
        \/ GetContents(p)
        \/ UpdateFile(p)
        \/ CreateFile(p)
        \/ EnablePages(p)
        \/ GenerateCall(p)
        \/ GenerateContent(p)

Spec == Init /\ [][Next]_vars

(***************************************************************************)
(* What a caller's log and the account show                                *)
(***************************************************************************)
Logged(p, name, outcome) ==
    \E i \in 1..Len(log[p]) :
        log[p][i].call = name /\ log[p][i].outcome = outcome

HasCall(p, name) == \E i \in 1..Len(log[p]) : log[p][i].call = name

Failed(p, name) ==
    \E i \in 1..Len(log[p]) :
        log[p][i].call = name /\ log[p][i].outcome # "ok"

TimesCalled(p, name) ==
    Cardinality({i \in 1..Len(log[p]) : log[p][i].call = name})

LastCall(p) == log[p][Len(log[p])].call

\* empty or made of whitespace only
BlankText(s) == \A i \in 1..Len(s) : s[i] \in Whitespace

HostingCalls ==
    {"get_user", "get_repos", "create_repo", "sleep", "get_contents",
     "update_file", "create_file", "enable_pages"}

Untouched(p) ==
    /\ log[p] = <<>>
    /\ \A c \in created : c.by # p
    /\ \A w \in written : w.by # p

(***************************************************************************)
(* C1: name resolution never returns a name of the existing-names set,     *)
(* the timestamped fallback included; for {prefix, prefix-2} it returns    *)
(* prefix-3.                                                               *)
(***************************************************************************)
C1_NeverAnExistingName ==
    nstage = "resolved" =>
        /\ candidate \notin existing_names
        /\ existing_names = TakenUpTo(2) =>
               candidate = SuffixedName(REPO_NAME_PREFIX, 3)

(***************************************************************************)
(* C2: the bare prefix when free; else prefix-n for the smallest n in      *)
(* 2..99 with prefix-n free (prefix-99 included); the timestamped name     *)
(* only when the prefix and all of prefix-2 .. prefix-99 are taken.        *)
(***************************************************************************)
FreeSuffixes(names) ==
    {n \in 2..(ProbeLimit - 1) : SuffixedName(REPO_NAME_PREFIX, n) \notin names}

C2_SmallestFreeCandidate ==
    nstage = "resolved" =>
        candidate =
            IF BareName(REPO_NAME_PREFIX) \notin existing_names
            THEN BareName(REPO_NAME_PREFIX)
            ELSE IF FreeSuffixes(existing_names) # {}
            THEN SuffixedName(REPO_NAME_PREFIX, Min(FreeSuffixes(existing_names)))
            ELSE SuffixedName(REPO_NAME_PREFIX, clock)

(***************************************************************************)
(* C3: in the upload step create_file is called exactly when the file      *)
(* fetch returned 404 and update_file (with the fetched sha) exactly when  *)
(* the fetch succeeded, never both; any other fetch status ends publish    *)
(* with RuntimeError and neither call.                                     *)
(***************************************************************************)
C3_CreateIffFetchNotFound ==
    \A p \in Procs :
        /\ HasCall(p, "create_file") => Logged(p, "get_contents", "404")
        /\ Logged(p, "get_contents", "404") =>
               pc[p] = "createfile" \/ HasCall(p, "create_file")
        /\ HasCall(p, "update_file") =>
               /\ Logged(p, "get_contents", "ok")
               /\ \A i \in 1..Len(log[p]) :
                      log[p][i].call = "update_file" => log[p][i].sha = Sha
        /\ Logged(p, "get_contents", "ok") =>
               pc[p] = "update" \/ HasCall(p, "update_file")
        /\ ~(HasCall(p, "create_file") /\ HasCall(p, "update_file"))
        /\ (Failed(p, "get_contents") /\ ~Logged(p, "get_contents", "404")) =>
               /\ pc[p] = "done"
               /\ result[p].kind = "RuntimeError"
               /\ ~HasCall(p, "create_file")
               /\ ~HasCall(p, "update_file")

(***************************************************************************)
(* C4: a 401 at the identity fetch ends publish with PermissionError, any  *)
(* other failing status with RuntimeError, and in both cases no later      *)
(* remote step is executed.                                                *)
(***************************************************************************)
C4_AuthFailureStopsPublish ==
    \A p \in Procs :
        Failed(p, "get_user") =>
            /\ pc[p] = "done"
            /\ Logged(p, "get_user", "401") => result[p].kind = "PermissionError"
            /\ ~Logged(p, "get_user", "401") => result[p].kind = "RuntimeError"
            /\ Len(log[p]) = 1
            /\ \A c \in created : c.by # p
            /\ \A w \in written : w.by # p

C4_Witness ==
    \E p, q \in Procs :
        /\ Logged(p, "get_user", "401") /\ result[p].kind = "PermissionError"
        /\ Logged(q, "get_user", "404") /\ result[q].kind = "RuntimeError"

(***************************************************************************)
(* C5: when authentication, name resolution, creation and upload succeed,  *)
(* publish returns https://<account>.github.io/<repo>/ whether the         *)
(* pages-enable call succeeds or raises; the URL is the same on both       *)
(* paths and equals the homepage passed at repository creation.            *)
(***************************************************************************)
UploadSucceeded(p) ==
    /\ Logged(p, "get_user", "ok")
    /\ Logged(p, "get_repos", "ok")
    /\ Logged(p, "create_repo", "ok")
    /\ Logged(p, "update_file", "ok") \/ Logged(p, "create_file", "ok")

C5_PagesFailureStillReturnsUrl ==
    \A p \in Procs :
        (UploadSucceeded(p) /\ HasCall(p, "enable_pages")) =>
            /\ pc[p] = "done"
            /\ result[p].kind = "url"
            /\ result[p].value =
                   <<"https://", Login, ".github.io/", repo_name[p], "/">>
            /\ \E c \in created :
                   /\ c.by = p
                   /\ c.name = repo_name[p]
                   /\ c.homepage = result[p].value

C5_Witness ==
    \E p, q \in Procs :
        /\ UploadSucceeded(p) /\ Failed(p, "enable_pages")
        /\ result[p].kind = "url"
        /\ UploadSucceeded(q) /\ Logged(q, "enable_pages", "ok")
        /\ result[q].kind = "url"

(***************************************************************************)
(* C6: every publish invocation ends in a URL, a ValueError for a blank    *)
(* input, a PermissionError for a 401 at the identity fetch, or a          *)
(* RuntimeError wrapping the cause: no raw provider exception escapes,     *)
(* and publish returns a URL whenever no step before pages-enable fails.   *)
(***************************************************************************)
C6_OutcomeTaxonomy ==
    \A p \in Procs :
        (op[p] = "deploy" /\ pc[p] = "done") =>
            /\ result[p].kind \in {"url", "ValueError", "PermissionError", "RuntimeError"}
            /\ result[p].kind = "ValueError" <=>
                   (BlankText(github_token[p]) \/ BlankText(html_code[p]))
            /\ result[p].kind = "PermissionError" <=> Logged(p, "get_user", "401")
            /\ (\E name \in {"get_user", "get_repos", "create_repo",
                              "get_contents", "update_file", "create_file"} :
                    /\ log[p] # <<>>
                    /\ LastCall(p) = name
                    /\ Failed(p, name)
                    /\ ~Logged(p, "get_user", "401"))
                   => /\ result[p].kind = "RuntimeError"
                      /\ result[p].cause = log[p][Len(log[p])].outcome
            /\ UploadSucceeded(p) => result[p].kind = "url"

(***************************************************************************)
(* C7: the remote operations of one publish occur in the order identity    *)
(* fetch, repo list, repo create, delay, file fetch, file create-or-       *)
(* update, pages-enable; none is issued before the earlier ones completed  *)
(* (a 404 file fetch counts as completed), each is issued at most once,    *)
(* and a run that returns a URL has issued all of them.                    *)
(***************************************************************************)
PublishOrder ==
    <<{"get_user"}, {"get_repos"}, {"create_repo"}, {"sleep"},
      {"get_contents"}, {"create_file", "update_file"}, {"enable_pages"}>>

Completed(entry) ==
    \/ entry.outcome = "ok"
    \/ entry.call = "get_contents" /\ entry.outcome = "404"

C7_FixedOrderNoRetry ==
    \A p \in Procs :
        op[p] = "deploy" =>
            /\ Len(log[p]) <= Len(PublishOrder)
            /\ \A i \in 1..Len(log[p]) :
                   /\ i <= Len(PublishOrder) => log[p][i].call \in PublishOrder[i]
                   /\ i < Len(log[p]) => Completed(log[p][i])
            /\ \A name \in HostingCalls : TimesCalled(p, name) <= 1
            /\ TimesCalled(p, "create_file") + TimesCalled(p, "update_file") <= 1
            /\ result[p].kind = "url" => Len(log[p]) = Len(PublishOrder)

(***************************************************************************)
(* C8: generate fails with ValueError for every blank api_key, publish     *)
(* for every blank token or blank markup, before any remote call.          *)
(***************************************************************************)
C8_BlankInputsFailFirst ==
    \A p \in Procs :
        /\ (op[p] = "generate" /\ BlankText(api_key[p])) =>
               /\ pc[p] = "done"
               /\ result[p].kind = "ValueError"
               /\ Untouched(p)
        /\ (op[p] = "deploy"
               /\ (BlankText(github_token[p]) \/ BlankText(html_code[p]))) =>
               /\ pc[p] = "done"
               /\ result[p].kind = "ValueError"
               /\ Untouched(p)

C8_Witness ==
    \E p, q \in Procs :
        /\ op[p] = "generate" /\ api_key[p] # <<>> /\ BlankText(api_key[p])
        /\ result[p].kind = "ValueError"
        /\ op[q] = "deploy" /\ ~BlankText(github_token[q])
        /\ html_code[q] # <<>> /\ BlankText(html_code[q])
        /\ result[q].kind = "ValueError"

(***************************************************************************)
(* C9 as stated: fence stripping is idempotent, applying it to its own     *)
(* result returns that result unchanged.                                   *)
(***************************************************************************)
StartsWithFence(s) == FenceAt(s, 1)
EndsWithFence(s) == FenceAt(s, Len(s) - 2)

\* the whole of s is one fenced block: fence, letters, newline, ..., fence
WholeFence(s) ==
    \E n \in 4..(Len(s) - 3) :
        /\ StartsWithFence(s)
        /\ \A j \in 4..(n - 1) : s[j] \in Letters
        /\ s[n] = "\n"
        /\ EndsWithFence(s)

C9_Idempotent == sstage = "twice" => restripped = stripped

(***************************************************************************)
(* C9 amended: fence stripping removes exactly one wrapper.  A text whose  *)
(* trimmed content is not one whole fenced block is returned unchanged; a  *)
(* text whose trimmed content is one fenced block returns exactly what     *)
(* lies between the opening fence line and the closing fence.  A second    *)
(* application returns the result unchanged unless the result, trimmed,    *)
(* is itself one whole fenced block, and then it strips one more wrapper.  *)
(***************************************************************************)
C9_StripsOneWrapper ==
    /\ sstage # "input" =>
           LET s == StrStrip(text)
           IN /\ ~WholeFence(s) => stripped = text
              /\ WholeFence(s) =>
                     \E n \in 4..(Len(s) - 3) :
                         /\ \A j \in 4..(n - 1) : s[j] \in Letters
                         /\ s = Fence \o SubSeq(s, 4, n - 1) \o <<"\n">>
                                    \o stripped \o Fence
    /\ sstage = "twice" =>
           /\ ~WholeFence(StrStrip(stripped)) => restripped = stripped
           /\ WholeFence(StrStrip(stripped)) =>
                  Len(restripped) < Len(stripped)

C9_Witness ==
    /\ sstage = "twice"
    /\ WholeFence(StrStrip(text))
    /\ text # StrStrip(text)
    /\ stripped # <<>>
    /\ restripped = stripped

====
